---- MODULE Spec2Model ----
(***************************************************************************)
(* Concept graph of a sectioned document: the graph store (ConceptGraph),  *)
(* the section parser that fills it (XMLSectionParser.parse and            *)
(* Parser.add_implicit_references), the four postprocessing passes, the    *)
(* structural analysis (cycles, subgraphs, metrics, score) and the         *)
(* section-order experiment loop (qcd/section_ordering.py main).           *)
(*                                                                         *)
(* Representation.                                                         *)
(*  - A node is its string.  A section is the string of its title.         *)
(*  - Edge.__eq__/__hash__ identify an edge with its (tail, head) pair, so *)
(*    the Python sets of edges (edges, forward_references,                 *)
(*    backward_references, external_entities) are sets of pairs; the       *)
(*    fields of the edge object that the store currently holds for a pair  *)
(*    (kind, weight, frequency, color, style) live in edge_index.  The     *)
(*    classification sets are only ever read through membership and        *)
(*    through edge.tail, so the fields of the objects they hold are not    *)
(*    kept.                                                                *)
(*  - A dict is a sequence of <<key, value>> pairs in insertion order.     *)
(*  - A weight is mant * 2^(-exp) with mant odd: every weight the code can *)
(*    produce (1, 2.0, 1.5, 0.5 and their repeated halves) has exactly one *)
(*    such form, and halving is exact in binary floating point.            *)
(*  - pass4 is a history variable: the edge objects as pass 4 found them   *)
(*    and the number of _mark_edge calls per pair in the current run.      *)
(*    The loop of _mark_edges over adjacency_list[curr] is taken over the  *)
(*    set as it is when the loop begins: set_edge discards and re-adds     *)
(*    the child being visited, which CPython does not yield again.         *)
(*  - The NLP front end (tokenizer, tagger, chunker) is outside the model: *)
(*    the document is drawn event by event from Names.                     *)
(***************************************************************************)
EXTENDS Integers, Sequences, FiniteSets, TLC

\* The concept strings of the documents explored, in a fixed order (used to
\* print a cycle from its least node).
NameOrder == <<"bread", "wheat flour", "wheat">>

Names == {NameOrder[i] : i \in DOMAIN NameOrder}

Rank(n) == CHOOSE i \in DOMAIN NameOrder : NameOrder[i] = n

\* The strings the documents explored use as section titles.  Which two of
\* the names they are does not matter: the graph treats every string alike.
SectionTitles == {"bread", "wheat"}

\* Python's None.
None == "None"

\* Bounds on the documents explored.
MaxSections == 2

MaxObservations == 3

VARIABLES
    nodes, section_listings, section_index, section_nodes, sections,
    section_counts,
    adjacency_list, adjacency_index, edges, edge_index,
    forward_references, backward_references, external_entities,
    shared_entities, cycles, subgraphs,
    mark_references,
    pc, caller, cur_section, phrases, n_sections, n_observations,
    derived, late_titles, add_edge_calls,
    visited, roots, stack, pass4,
    scores, permutations, perm_todo,
    before, runs

store == <<adjacency_list, adjacency_index, edges, edge_index>>

provenance == <<nodes, section_listings, section_index, section_nodes, sections,
                section_counts>>

classes == <<forward_references, backward_references, external_entities,
             shared_entities>>

analysis == <<cycles, subgraphs>>

parser_pos == <<cur_section, phrases, n_sections, n_observations>>

history == <<derived, late_titles, add_edge_calls>>

dfs == <<visited, roots, stack, pass4>>

driver == <<scores, permutations, perm_todo>>

vars == <<provenance, store, classes, analysis, mark_references, pc, caller,
          parser_pos, history, dfs, driver, before, runs>>

-----------------------------------------------------------------------------
\* Edge classes and their constructors.

EdgeKinds == {"Edge", "ForwardEdge", "BackwardEdge", "ImplicitEdge"}

\* The default of the weight parameter of each class's __init__.
DefaultWeight(kind) ==
    CASE kind = "Edge" -> [mant |-> 1, exp |-> 0]
      [] kind = "ForwardEdge" -> [mant |-> 1, exp |-> -1]
      [] kind = "BackwardEdge" -> [mant |-> 3, exp |-> 1]
      [] kind = "ImplicitEdge" -> [mant |-> 1, exp |-> 1]

DefaultColor(kind) ==
    CASE kind = "ForwardEdge" -> "blue"
      [] kind = "BackwardEdge" -> "red"
      [] OTHER -> "black"

DefaultStyle(kind) == IF kind = "ImplicitEdge" THEN "dashed" ELSE "solid"

\* edge_type(tail, head): a fresh edge object of the class.
NewEdge(kind) ==
    [kind |-> kind, weight |-> DefaultWeight(kind), frequency |-> 1,
     color |-> DefaultColor(kind), style |-> DefaultStyle(kind)]

\* weight *= 0.5
Halve(w) == [mant |-> w.mant, exp |-> w.exp + 1]

\* mant * 2^(-exp), brought to an odd mant.
RECURSIVE Normal(_)
Normal(w) ==
    IF w.mant % 2 = 0 /\ w.mant # 0
    THEN Normal([mant |-> w.mant \div 2, exp |-> w.exp - 1])
    ELSE w

\* Edge.weighted_frequency: weight * frequency.
weighted_frequency(e) == Normal([mant |-> e.weight.mant * e.frequency, exp |-> e.weight.exp])

-----------------------------------------------------------------------------
\* Dicts in insertion order.

Keys(d) == {d[i][1] : i \in DOMAIN d}

Get(d, k) == IF k \in Keys(d) THEN d[CHOOSE i \in DOMAIN d : d[i][1] = k][2] ELSE 0

\* d[k] = 1 in place of d[k] += 1.
IncrOnce(d, k) ==
    IF k \in Keys(d)
    THEN [i \in DOMAIN d |-> IF d[i][1] = k THEN <<k, 1>> ELSE d[i]]
    ELSE Append(d, <<k, 1>>)

\* d[k] += 1 on a defaultdict(int): a missing key enters at the end.
Incr(d, k) ==
    IF k \in Keys(d)
    THEN [i \in DOMAIN d |-> IF d[i][1] = k THEN <<k, d[i][2] + 1>> ELSE d[i]]
    ELSE Append(d, <<k, 1>>)

\* The last key, in insertion order, whose value no other exceeds.
MaxKeyLast(d) ==
    LET i == CHOOSE i \in DOMAIN d :
                 /\ \A j \in DOMAIN d : d[j][2] <= d[i][2]
                 /\ \A j \in DOMAIN d : j > i => d[j][2] < d[i][2]
    IN d[i][1]

\* max(d, key=lambda key: d[key]): the first key, in insertion order, whose
\* value no other exceeds.
MaxKey(d) ==
    LET i == CHOOSE i \in DOMAIN d :
                 /\ \A j \in DOMAIN d : d[j][2] <= d[i][2]
                 /\ \A j \in DOMAIN d : j < i => d[j][2] < d[i][2]
    IN d[i][1]

-----------------------------------------------------------------------------
\* The graph store.

\* The absent value of edge_index (defaultdict(lambda: None)).
NoEdge == [kind |-> None]

\* The provenance part of the graph as one value: the operators below take
\* it and return it changed.
Prov ==
    [nodes |-> nodes, section_listings |-> section_listings,
     section_index |-> section_index, section_nodes |-> section_nodes,
     sections |-> sections, section_counts |-> section_counts]

\* The edge part of the graph as one value.
Store ==
    [adjacency_list |-> adjacency_list, adjacency_index |-> adjacency_index,
     edges |-> edges, edge_index |-> edge_index]

InSeq(x, s) == \E i \in DOMAIN s : s[i] = x

\* list.index(x) for an x the list holds: the first position.
IndexOf(s, x) == CHOOSE i \in DOMAIN s : s[i] = x /\ \A j \in DOMAIN s : j < i => s[j] # x

\* ConceptGraph.update_section_count
update_section_count(P, node, section) ==
    [P EXCEPT !.section_counts[node] = Incr(@, section)]

\* ConceptGraph.add_node
add_node(P, node, section) ==
    IF node \in P.nodes
    THEN P
    ELSE LET P1 == [P EXCEPT !.nodes = @ \cup {node},
                             !.section_listings[section] = @ \cup {node},
                             !.section_index[node] = section]
             P2 == update_section_count(P1, node, section)
             P3 == IF InSeq(section, P2.sections)
                   THEN P2
                   ELSE [P2 EXCEPT !.sections = Append(@, section)]
         IN IF node = section
            THEN [P3 EXCEPT !.section_nodes = @ \cup {node}]
            ELSE P3

\* ConceptGraph.get_edge
get_edge(S, tail, head) == S.edge_index[<<tail, head>>]

\* add_edge without the test that turns a degenerate edge away.
add_edge_unguarded(S, tail, head, kind) ==
    IF <<tail, head>> \in S.edges
    THEN [S EXCEPT !.edge_index[<<tail, head>>].frequency = @ + 1]
    ELSE [S EXCEPT !.adjacency_list[tail] = @ \cup {head},
                   !.adjacency_index[head] = @ \cup {tail},
                   !.edges = @ \cup {<<tail, head>>},
                   !.edge_index[<<tail, head>>] = NewEdge(kind)]

\* add_edge that returns the existing edge of a duplicate without counting
\* the occurrence.
add_edge_uncounted(S, tail, head, kind) ==
    IF tail = head
    THEN S
    ELSE IF <<tail, head>> \in S.edges
         THEN S
         ELSE [S EXCEPT !.adjacency_list[tail] = @ \cup {head},
                        !.adjacency_index[head] = @ \cup {tail},
                        !.edges = @ \cup {<<tail, head>>},
                        !.edge_index[<<tail, head>>] = NewEdge(kind)]

\* ConceptGraph.add_edge: the store after the call.
add_edge(S, tail, head, kind) ==
    IF tail = head
    THEN S
    ELSE IF <<tail, head>> \in S.edges
         THEN [S EXCEPT !.edge_index[<<tail, head>>].frequency = @ + 1]
         ELSE [S EXCEPT !.adjacency_list[tail] = @ \cup {head},
                        !.adjacency_index[head] = @ \cup {tail},
                        !.edges = @ \cup {<<tail, head>>},
                        !.edge_index[<<tail, head>>] = NewEdge(kind)]

\* ConceptGraph.add_edge: its return value, the edge object or NoEdge for
\* Python's None.
add_edge_result(S, tail, head, kind) ==
    IF tail = head THEN NoEdge ELSE get_edge(add_edge(S, tail, head, kind), tail, head)

\* remove_edge that leaves the head's entry of adjacency_index alone.
remove_edge_half(S, tail, head) ==
    [S EXCEPT !.edges = @ \ {<<tail, head>>},
              !.edge_index[<<tail, head>>] = NoEdge,
              !.adjacency_list[tail] = @ \ {head}]

\* ConceptGraph.remove_edge
remove_edge(S, tail, head) ==
    [S EXCEPT !.edges = @ \ {<<tail, head>>},
              !.edge_index[<<tail, head>>] = NoEdge,
              !.adjacency_list[tail] = @ \ {head},
              !.adjacency_index[head] = @ \ {tail}]

\* ConceptGraph.set_edge, for a pair the index holds an edge for.
set_edge(S, tail, head, kind) ==
    add_edge(remove_edge(S, tail, head), tail, head, kind)

-----------------------------------------------------------------------------
\* Structural analysis and metrics.

ZeroDivisionError == [error |-> "ZeroDivisionError"]

\* The sequences of 1..k distinct members of N.
DistinctSeqs(N) ==
    UNION {{s \in [1..k -> N] : \A i, j \in 1..k : i # j => s[i] # s[j]} :
           k \in 1..Cardinality(N)}

\* nx.simple_cycles over to_nx(): each elementary cycle once, written from
\* its least node.
simple_cycles(N, E) ==
    {c \in DistinctSeqs(N) :
        /\ \A i \in 2..Len(c) : Rank(c[1]) < Rank(c[i])
        /\ \A i \in 1..Len(c) : <<c[i], c[(i % Len(c)) + 1]>> \in E}

\* The nodes one undirected step from a member of C.
Around(C, E) == C \cup {p[2] : p \in {q \in E : q[1] \in C}} \cup {p[1] : p \in {q \in E : q[2] \in C}}

RECURSIVE Component(_, _)
Component(C, E) == IF Around(C, E) = C THEN C ELSE Component(Around(C, E), E)

\* nx.connected_components over to_nx().to_undirected()
connected_components(N, E) == {Component({n}, E) : n \in N}

RECURSIVE SumLen(_)
SumLen(S) == IF S = {} THEN 0 ELSE LET x == CHOOSE x \in S : TRUE IN Len(x) + SumLen(S \ {x})

RECURSIVE SumCard(_)
SumCard(S) == IF S = {} THEN 0 ELSE LET x == CHOOSE x \in S : TRUE IN Cardinality(x) + SumCard(S \ {x})

RECURSIVE SumOut(_, _)
SumOut(N, adj) == IF N = {} THEN 0 ELSE LET x == CHOOSE x \in N : TRUE IN Cardinality(adj[x]) + SumOut(N \ {x}, adj)

\* A quotient num / den of two integers, kept as the pair.
Div(num, den) == IF den = 0 THEN ZeroDivisionError ELSE [num |-> num, den |-> den]

\* ConceptGraph.mean_outdegree
mean_outdegree == Div(SumOut(nodes, adjacency_list), Cardinality(nodes))

\* ConceptGraph.mean_section_outdegree: the per-section quotients, then
\* their sum over len(sections).
mean_section_outdegree ==
    IF \E i \in DOMAIN sections : section_listings[sections[i]] = {}
    THEN ZeroDivisionError
    ELSE IF Len(sections) = 0
         THEN ZeroDivisionError
         ELSE [terms |-> [i \in DOMAIN sections |->
                             Div(SumOut(section_listings[sections[i]], adjacency_list),
                                 Cardinality(section_listings[sections[i]]))],
               den |-> Len(sections)]

\* The sum over the edges of P of Edge.log_weighted_frequency,
\* 1 + log2(1 + weighted_frequency), kept as the weighted frequency of each
\* edge: equal terms give equal sums.
LogTerms(P) == [p \in P |-> weighted_frequency(edge_index[p])]

\* ConceptGraph.mean_weighted_outdegree
mean_weighted_outdegree ==
    IF Cardinality(nodes) = 0
    THEN ZeroDivisionError
    ELSE [terms |-> LogTerms(edges), den |-> Cardinality(nodes)]

\* ConceptGraph.mean_weighted_section_outdegree
mean_weighted_section_outdegree ==
    IF \E i \in DOMAIN sections : section_listings[sections[i]] = {}
    THEN ZeroDivisionError
    ELSE IF Len(sections) = 0
         THEN ZeroDivisionError
         ELSE [terms |-> [i \in DOMAIN sections |->
                            [terms |-> LogTerms({p \in Names \X Names :
                                                    /\ p[1] \in section_listings[sections[i]]
                                                    /\ p[2] \in adjacency_list[p[1]]}),
                             den |-> Cardinality(section_listings[sections[i]])]],
               den |-> Len(sections)]

\* ConceptGraph.mean_cycle_length
mean_cycle_length ==
    IF Cardinality(cycles) > 0 THEN Div(SumLen(cycles), Cardinality(cycles)) ELSE Div(0, 1)

\* ConceptGraph.mean_subgraph_size
mean_subgraph_size ==
    IF Cardinality(subgraphs) > 0 THEN Div(SumCard(subgraphs), Cardinality(subgraphs)) ELSE Div(0, 1)

\* ConceptGraph.score: the three summands.
score ==
    IF mean_weighted_outdegree = ZeroDivisionError
    THEN ZeroDivisionError
    ELSE [mean_weighted_outdegree |-> mean_weighted_outdegree,
          n_cycles |-> Cardinality(cycles),
          avg_cycle_length |-> mean_cycle_length]

\* ConceptGraph.print_summary raises when one of the four means it prints
\* does.
print_summary_raises ==
    \/ mean_outdegree = ZeroDivisionError
    \/ mean_section_outdegree = ZeroDivisionError
    \/ mean_weighted_outdegree = ZeroDivisionError
    \/ mean_weighted_section_outdegree = ZeroDivisionError

-----------------------------------------------------------------------------
\* Construction: XMLSectionParser.parse feeds the graph one call at a time.

\* What postprocessing() finds on entry, kept to compare a run with the
\* run before it.
Snapshot ==
    [sections |-> sections, section_counts |-> section_counts,
     section_index |-> section_index, edge_index |-> edge_index,
     forward_references |-> forward_references,
     backward_references |-> backward_references,
     external_entities |-> external_entities,
     shared_entities |-> shared_entities, score |-> score]

Init ==
    /\ nodes = {}
    /\ section_listings = [s \in Names |-> {}]
    /\ section_index = [n \in Names |-> None]
    /\ section_nodes = {}
    /\ sections = <<>>
    /\ section_counts = [n \in Names |-> <<>>]
    /\ adjacency_list = [n \in Names |-> {}]
    /\ adjacency_index = [n \in Names |-> {}]
    /\ edges = {}
    /\ edge_index = [p \in Names \X Names |-> NoEdge]
    /\ forward_references = {}
    /\ backward_references = {}
    /\ external_entities = {}
    /\ shared_entities = {}
    /\ cycles = {}
    /\ subgraphs = {}
    /\ mark_references \in BOOLEAN
    /\ pc = "parse"
    /\ caller = "parse"
    /\ cur_section = None
    /\ phrases = {}
    /\ n_sections = 0
    /\ n_observations = 0
    /\ derived = {}
    /\ late_titles = {}
    /\ add_edge_calls = [p \in Names \X Names |-> [count |-> 0, first |-> None, kinds |-> {}]]
    /\ visited = {}
    /\ roots = {}
    /\ stack = <<>>
    /\ pass4 = [entry |-> [p \in Names \X Names |-> NoEdge],
                 marked |-> [p \in Names \X Names |-> 0]]
    /\ scores = <<>>
    /\ permutations = <<>>
    /\ perm_todo = <<>>
    /\ before = Snapshot
    /\ runs = 0

SetProv(P) ==
    /\ nodes' = P.nodes
    /\ section_listings' = P.section_listings
    /\ section_index' = P.section_index
    /\ section_nodes' = P.section_nodes
    /\ sections' = P.sections
    /\ section_counts' = P.section_counts

SetStore(S) ==
    /\ adjacency_list' = S.adjacency_list
    /\ adjacency_index' = S.adjacency_index
    /\ edges' = S.edges
    /\ edge_index' = S.edge_index

\* The calls of add_edge the parser has made for a pair of distinct nodes:
\* how many, the edge class of the first and the classes of all.
CountCall(tail, head, kind) ==
    add_edge_calls' =
        IF tail = head
        THEN add_edge_calls
        ELSE [add_edge_calls EXCEPT ![<<tail, head>>] =
                 [count |-> @.count + 1,
                  first |-> IF @.count = 0 THEN kind ELSE @.first,
                  kinds |-> @.kinds \cup {kind}]]

ParseIdle == <<classes, analysis, mark_references, pc, caller, dfs, driver, before, runs>>

\* A <section>: its lemmatized title is added as a node of itself.
ParseSection(title) ==
    /\ pc = "parse"
    /\ n_sections < MaxSections
    /\ SetProv(add_node(Prov, title, title))
    /\ cur_section' = title
    /\ phrases' = {}
    /\ n_sections' = n_sections + 1
    /\ late_titles' = IF title \in derived THEN late_titles \cup {title} ELSE late_titles
    /\ UNCHANGED <<store, n_observations, derived, add_edge_calls, ParseIdle>>

\* An <entity> of the current section.
ParseEntity(entity_name) ==
    /\ pc = "parse"
    /\ cur_section # None
    /\ n_observations < MaxObservations
    /\ SetProv(IF entity_name \notin nodes
               THEN add_node(Prov, entity_name, cur_section)
               ELSE update_section_count(Prov, entity_name, cur_section))
    /\ SetStore(add_edge(Store, cur_section, entity_name, "Edge"))
    /\ CountCall(cur_section, entity_name, "Edge")
    /\ phrases' = {entity_name}
    /\ n_observations' = n_observations + 1
    /\ UNCHANGED <<cur_section, n_sections, derived, late_titles, ParseIdle>>

\* Parser.add_implicit_references, one (implicit_entity, context) of
\* permutations(): the context is the mention itself or a variation that
\* permutations() has yielded before for this mention.
ParseImplicit(implicit_entity, context) ==
    /\ pc = "parse"
    /\ context \in phrases
    /\ n_observations < MaxObservations
    /\ SetProv(IF implicit_entity \notin nodes
               THEN add_node(Prov, implicit_entity, cur_section)
               ELSE update_section_count(Prov, implicit_entity, cur_section))
    /\ SetStore(add_edge(Store, context, implicit_entity, "ImplicitEdge"))
    /\ CountCall(context, implicit_entity, "ImplicitEdge")
    /\ derived' = IF implicit_entity \notin nodes
                  THEN derived \cup {implicit_entity}
                  ELSE derived
    /\ phrases' = phrases \cup {implicit_entity}
    /\ n_observations' = n_observations + 1
    /\ UNCHANGED <<cur_section, n_sections, late_titles, ParseIdle>>

\* The parser returns and ConceptGraph.parse calls postprocessing().
EndOfDocument ==
    /\ pc = "parse"
    /\ pc' = "_reassign_implicit_entities"
    /\ before' = Snapshot
    /\ runs' = runs + 1
    /\ cur_section' = None
    /\ phrases' = {}
    /\ n_sections' = 0
    /\ n_observations' = 0
    /\ derived' = {}
    /\ UNCHANGED <<provenance, store, classes, analysis, mark_references, caller,
                   late_titles, add_edge_calls, dfs, driver>>

-----------------------------------------------------------------------------
\* Postprocessing, passes 1 to 3.

\* section_listings[section].remove(node), a KeyError passed over.
Unlist(listings, section, node) ==
    IF section \in DOMAIN listings
    THEN [listings EXCEPT ![section] = @ \ {node}]
    ELSE listings

\* The body of the inner loop of _reassign_implicit_entities for one
\* (node, child).
ReassignChild(P, S, node, child) ==
    IF get_edge(S, node, child).kind = "ImplicitEdge"
    THEN LET child_section == P.section_index[child]
             node_section == P.section_index[node]
             removed == Unlist(P.section_listings, child_section, child)
         IN [P EXCEPT !.section_listings = [removed EXCEPT ![node_section] = @ \cup {child}],
                      !.section_index[child] = node_section]
    ELSE P

\* for child in self.adjacency_list[node], in every order a set can be
\* iterated in: the set of outcomes.
RECURSIVE ReassignChildren(_, _, _, _)
ReassignChildren(P, S, node, todo) ==
    IF todo = {}
    THEN {P}
    ELSE UNION {ReassignChildren(ReassignChild(P, S, node, child), S, node, todo \ {child}) :
                child \in todo}

\* for node in self.section_nodes, in every order: the set of outcomes.
RECURSIVE ReassignNodes(_, _, _)
ReassignNodes(P, S, todo) ==
    IF todo = {}
    THEN {P}
    ELSE UNION {UNION {ReassignNodes(Q, S, todo \ {node}) :
                       Q \in ReassignChildren(P, S, node, S.adjacency_list[node])} :
                node \in todo}

\* ConceptGraph._reassign_implicit_entities (pass 1)
_reassign_implicit_entities ==
    /\ pc = "_reassign_implicit_entities"
    /\ \E P \in ReassignNodes(Prov, Store, section_nodes) : SetProv(P)
    /\ pc' = "_reassign_sections"
    /\ UNCHANGED <<store, classes, analysis, mark_references, caller, parser_pos,
                   history, dfs, driver, before, runs>>

\* The loop body of _reassign_sections without the removal from the
\* previous section's listing.
ReassignSectionKeepListed(P, node) ==
    LET section == MaxKey(P.section_counts[node])
        prev_section == P.section_index[node]
    IN IF section # prev_section
       THEN [P EXCEPT !.section_index[node] = section,
                      !.section_listings[section] = @ \cup {node}]
       ELSE P

\* The body of the loop of _reassign_sections for one node.
ReassignSection(P, node) ==
    LET section == MaxKey(P.section_counts[node])
        prev_section == P.section_index[node]
    IN IF section # prev_section
       THEN [P EXCEPT !.section_index[node] = section,
                      !.section_listings =
                          [Unlist(@, prev_section, node) EXCEPT ![section] = @ \cup {node}]]
       ELSE P

\* for node in self.nodes: a node's turn reads and writes that node's
\* entries only, so one order stands for all.
RECURSIVE ReassignSections(_, _)
ReassignSections(P, todo) ==
    IF todo = {}
    THEN P
    ELSE LET node == CHOOSE n \in todo : TRUE
         IN ReassignSections(ReassignSection(P, node), todo \ {node})

\* ConceptGraph._reassign_sections (pass 2)
_reassign_sections ==
    /\ pc = "_reassign_sections"
    /\ SetProv(ReassignSections(Prov, nodes))
    /\ pc' = "_categorise_nodes"
    /\ UNCHANGED <<store, classes, analysis, mark_references, caller, parser_pos,
                   history, dfs, driver, before, runs>>

\* The part of the graph pass 3 writes: edge weights and two of the
\* classification sets.
Cat == [edge_index |-> edge_index, external_entities |-> external_entities,
        shared_entities |-> shared_entities]

\* for tail in self.adjacency_index[node]: halve and record the edge.
RECURSIVE HalveInbound(_, _, _)
HalveInbound(C, node, todo) ==
    IF todo = {}
    THEN C
    ELSE LET tail == CHOOSE t \in todo : TRUE
         IN HalveInbound([C EXCEPT !.edge_index[<<tail, node>>].weight = Halve(@),
                                   !.external_entities = @ \cup {<<tail, node>>}],
                         node, todo \ {tail})

\* The test of _categorise_nodes without the comparison with the node's
\* own section.
SelfContainedAnySection(referencing_sections, section) ==
    Cardinality(referencing_sections) = 1

\* The test of _categorise_nodes: one referencing section, the node's own.
SelfContained(referencing_sections, section) ==
    /\ Cardinality(referencing_sections) = 1
    /\ Cardinality(referencing_sections \cap {section}) = 1

\* The body of the inner loop with a plain else: whatever is not
\* self-contained is recorded as shared.
CategoriseNodeElse(C, section, node) ==
    LET referencing_sections == {section_index[tail] : tail \in adjacency_index[node]}
    IN IF SelfContained(referencing_sections, section)
       THEN HalveInbound(C, node, adjacency_index[node])
       ELSE [C EXCEPT !.shared_entities = @ \cup {node}]

\* The body of the inner loop of _categorise_nodes for one node of one
\* section's listing.
CategoriseNode(C, section, node) ==
    LET referencing_sections == {section_index[tail] : tail \in adjacency_index[node]}
    IN IF SelfContained(referencing_sections, section)
       THEN HalveInbound(C, node, adjacency_index[node])
       ELSE IF node # section
            THEN [C EXCEPT !.shared_entities = @ \cup {node}]
            ELSE C

RECURSIVE CategoriseListing(_, _, _)
CategoriseListing(C, section, todo) ==
    IF todo = {}
    THEN C
    ELSE LET node == CHOOSE n \in todo : TRUE
         IN CategoriseListing(CategoriseNode(C, section, node), section, todo \ {node})

\* for section in self.sections, from position i on.
RECURSIVE CategoriseFrom(_, _)
CategoriseFrom(C, i) ==
    IF i > Len(sections)
    THEN C
    ELSE CategoriseFrom(CategoriseListing(C, sections[i], section_listings[sections[i]]), i + 1)

\* ConceptGraph._categorise_nodes (pass 3), then the test of
\* mark_references in postprocessing().
_categorise_nodes ==
    /\ pc = "_categorise_nodes"
    /\ LET C == CategoriseFrom(Cat, 1)
       IN /\ edge_index' = C.edge_index
          /\ external_entities' = C.external_entities
          /\ shared_entities' = C.shared_entities
    /\ pc' = IF mark_references THEN "mark_edges" ELSE "find_cycles"
    /\ UNCHANGED <<provenance, adjacency_list, adjacency_index, edges,
                   forward_references, backward_references, analysis,
                   mark_references, caller, parser_pos, history, dfs, driver,
                   before, runs>>

-----------------------------------------------------------------------------
\* Postprocessing, pass 4: the depth-first marking of cross-section edges.

\* _mark_edge without the two assignments after set_edge: the new edge
\* keeps the style and the frequency of a fresh one.
_mark_edge_fresh(tail, head, edge_type) ==
    /\ SetStore(set_edge(Store, tail, head, edge_type))
    /\ forward_references' = IF edge_type = "ForwardEdge"
                             THEN forward_references \cup {<<tail, head>>}
                             ELSE forward_references
    /\ backward_references' = IF edge_type = "BackwardEdge"
                              THEN backward_references \cup {<<tail, head>>}
                              ELSE backward_references
    /\ pass4' = [pass4 EXCEPT !.marked[<<tail, head>>] = @ + 1]

\* ConceptGraph._mark_edge: the edge of the pair is replaced by one of
\* edge_type that keeps the style and the frequency, and is added to the
\* set of its class.
_mark_edge(tail, head, edge_type) ==
    LET edge == get_edge(Store, tail, head)
        S == set_edge(Store, tail, head, edge_type)
    IN /\ SetStore([S EXCEPT !.edge_index[<<tail, head>>].style = edge.style,
                             !.edge_index[<<tail, head>>].frequency = edge.frequency])
       /\ forward_references' = IF edge_type = "ForwardEdge"
                                THEN forward_references \cup {<<tail, head>>}
                                ELSE forward_references
       /\ backward_references' = IF edge_type = "BackwardEdge"
                                 THEN backward_references \cup {<<tail, head>>}
                                 ELSE backward_references
       /\ pass4' = [pass4 EXCEPT !.marked[<<tail, head>>] = @ + 1]

\* The frames of _mark_edges whose loop over the children has more to do.
RECURSIVE Unwind(_)
Unwind(stk) ==
    IF stk # <<>> /\ stk[Len(stk)].todo = {}
    THEN Unwind(SubSeq(stk, 1, Len(stk) - 1))
    ELSE stk

\* _mark_edges that tests the shared visited set first: a node that has
\* been visited is left at once, whatever the section of prev.
_mark_edges_visited_first(curr, prev, stk) ==
    IF curr \in visited
    THEN /\ stack' = Unwind(stk)
         /\ UNCHANGED <<pc, store, forward_references, backward_references, visited, pass4>>
    ELSE IF prev # None /\ section_index[curr] # section_index[prev]
         THEN IF ~InSeq(section_index[curr], sections) \/ ~InSeq(section_index[prev], sections)
              THEN /\ pc' = "ValueError"
                   /\ stack' = stk
                   /\ UNCHANGED <<store, forward_references, backward_references, visited, pass4>>
              ELSE /\ IF IndexOf(sections, section_index[curr]) < IndexOf(sections, section_index[prev])
                      THEN _mark_edge(prev, curr, "BackwardEdge")
                      ELSE _mark_edge(prev, curr, "ForwardEdge")
                   /\ stack' = Unwind(stk)
                   /\ UNCHANGED <<pc, visited>>
         ELSE /\ visited' = visited \cup {curr}
              /\ stack' = Unwind(Append(stk, [node |-> curr, todo |-> adjacency_list[curr]]))
              /\ UNCHANGED <<pc, store, forward_references, backward_references, pass4>>

\* One call _mark_edges(curr, prev, visited) up to its loop; stk is the
\* stack of the callers' frames.
_mark_edges(curr, prev, stk) ==
    IF prev # None /\ section_index[curr] # section_index[prev]
    THEN IF ~InSeq(section_index[curr], sections) \/ ~InSeq(section_index[prev], sections)
         THEN \* self.sections.index raises ValueError
              /\ pc' = "ValueError"
              /\ stack' = stk
              /\ UNCHANGED <<store, forward_references, backward_references, visited, pass4>>
         ELSE LET curr_i == IndexOf(sections, section_index[curr])
                  prev_i == IndexOf(sections, section_index[prev])
              IN /\ IF curr_i < prev_i
                    THEN _mark_edge(prev, curr, "BackwardEdge")
                    ELSE IF curr_i > prev_i
                         THEN _mark_edge(prev, curr, "ForwardEdge")
                         ELSE UNCHANGED <<store, forward_references, backward_references, pass4>>
                 /\ stack' = Unwind(stk)
                 /\ UNCHANGED <<pc, visited>>
    ELSE /\ IF curr \notin visited
            THEN /\ visited' = visited \cup {curr}
                 /\ stack' = Unwind(Append(stk, [node |-> curr, todo |-> adjacency_list[curr]]))
            ELSE /\ stack' = Unwind(stk)
                 /\ UNCHANGED visited
         /\ UNCHANGED <<pc, store, forward_references, backward_references, pass4>>

MarkIdle == <<provenance, external_entities, shared_entities, analysis,
              mark_references, caller, parser_pos, history, driver, before, runs>>

\* ConceptGraph.mark_edges, up to its loop.
mark_edges ==
    /\ pc = "mark_edges"
    /\ visited' = {}
    /\ roots' = nodes
    /\ stack' = <<>>
    /\ pass4' = [entry |-> edge_index, marked |-> [p \in Names \X Names |-> 0]]
    /\ pc' = "_mark_edges"
    /\ UNCHANGED <<store, forward_references, backward_references, MarkIdle>>

\* for node in self.nodes: self._mark_edges(node, None, visited)
MarkRoot(node) ==
    /\ pc = "_mark_edges"
    /\ stack = <<>>
    /\ node \in roots
    /\ roots' = roots \ {node}
    /\ _mark_edges(node, None, stack)
    /\ UNCHANGED MarkIdle

\* for child in self.adjacency_list[curr]: self._mark_edges(child, curr,
\* visited), in the innermost call that is still looping.
MarkChild(child) ==
    /\ pc = "_mark_edges"
    /\ stack # <<>>
    /\ LET top == stack[Len(stack)]
       IN /\ child \in top.todo
          /\ _mark_edges(child, top.node,
                         [stack EXCEPT ![Len(stack)].todo = @ \ {child}])
    /\ UNCHANGED <<roots, MarkIdle>>

\* mark_edges returns.
MarkDone ==
    /\ pc = "_mark_edges"
    /\ stack = <<>>
    /\ roots = {}
    /\ visited' = {}
    /\ pc' = "find_cycles"
    /\ UNCHANGED <<roots, stack, pass4, store, forward_references, backward_references, MarkIdle>>

\* to_nx, find_cycles and find_subgraphs; postprocessing() returns to its
\* caller.
find_cycles ==
    /\ pc = "find_cycles"
    /\ cycles' = simple_cycles(nodes, edges)
    /\ subgraphs' = connected_components(nodes, edges)
    /\ pc' = IF caller = "parse" THEN "main" ELSE "loop"
    /\ UNCHANGED <<provenance, store, classes, mark_references, caller, parser_pos,
                   history, dfs, driver, before, runs>>

-----------------------------------------------------------------------------
\* The section-order experiment (qcd/section_ordering.py main).

RemoveAt(s, i) == SubSeq(s, 1, i - 1) \o SubSeq(s, i + 1, Len(s))

RECURSIVE Prepend(_, _)
Prepend(x, ps) == IF ps = <<>> THEN <<>> ELSE <<(<<x>> \o Head(ps))>> \o Prepend(x, Tail(ps))

\* itertools.permutations(s): the orderings of s, by position,
\* lexicographically.
RECURSIVE itertools_permutations(_)
RECURSIVE PermutationsFrom(_, _)
itertools_permutations(s) == IF s = <<>> THEN << <<>> >> ELSE PermutationsFrom(s, 1)

PermutationsFrom(s, i) ==
    IF i > Len(s)
    THEN <<>>
    ELSE Prepend(s[i], itertools_permutations(RemoveAt(s, i))) \o PermutationsFrom(s, i + 1)

\* main after graph.parse: the summary unless disabled, the score of the
\* original ordering, and the permutations to try.
main ==
    /\ pc = "main"
    /\ \E disable_summary \in BOOLEAN :
          IF (~disable_summary /\ print_summary_raises) \/ score = ZeroDivisionError
          THEN /\ pc' = "ZeroDivisionError"
               /\ UNCHANGED perm_todo
          ELSE /\ pc' = "loop"
               /\ perm_todo' = itertools_permutations(sections)
    /\ caller' = "main"
    /\ UNCHANGED <<provenance, store, classes, analysis, mark_references, parser_pos,
                   history, dfs, scores, permutations, before, runs>>

\* One turn of the loop over the permutations, up to the first pass of
\* postprocessing().
loop ==
    /\ pc = "loop"
    /\ perm_todo # <<>>
    /\ scores' = Append(scores, score)
    /\ permutations' = Append(permutations, Head(perm_todo))
    /\ sections' = Head(perm_todo)
    /\ perm_todo' = Tail(perm_todo)
    /\ before' = Snapshot
    /\ runs' = runs + 1
    /\ pc' = "_reassign_implicit_entities"
    /\ UNCHANGED <<nodes, section_listings, section_index, section_nodes, section_counts,
                   store, classes, analysis, mark_references, caller, parser_pos,
                   history, dfs>>

\* The loop is over: the statistics of the scores (statistics.stdev needs
\* two of them).
report ==
    /\ pc = "loop"
    /\ perm_todo = <<>>
    /\ pc' = IF Len(scores) < 2 THEN "StatisticsError" ELSE "done"
    /\ UNCHANGED <<provenance, store, classes, analysis, mark_references, caller,
                   parser_pos, history, dfs, driver, before, runs>>

-----------------------------------------------------------------------------
Next ==
    \/ \E title \in SectionTitles : ParseSection(title)
    \/ \E entity_name \in Names : ParseEntity(entity_name)
    \/ \E implicit_entity, context \in Names : ParseImplicit(implicit_entity, context)
    \/ EndOfDocument
    \/ _reassign_implicit_entities
    \/ _reassign_sections
    \/ _categorise_nodes
    \/ mark_edges
    \/ \E node \in Names : MarkRoot(node)
    \/ \E child \in Names : MarkChild(child)
    \/ MarkDone
    \/ find_cycles
    \/ main
    \/ loop
    \/ report

Spec == Init /\ [][Next]_vars

-----------------------------------------------------------------------------
\* Properties.

\* postprocessing() has returned to its caller: to ConceptGraph.parse (and
\* so to main) after the first run, to the experiment loop after a re-run.
EndOfRun == pc \in {"main", "loop"}

\* The run that has just returned was a re-run under the section order of
\* the run before it, with the tallies of the run before it.
SameInputsRerun ==
    /\ pc = "loop"
    /\ runs >= 2
    /\ sections = before.sections
    /\ section_counts = before.section_counts

\* C1: a second postprocessing() under an unchanged section order and
\* unchanged tallies leaves the four classification sets, the weight and
\* kind of every edge and the score as the first run left them.
IdempotentPostprocessing ==
    SameInputsRerun =>
        /\ forward_references = before.forward_references
        /\ backward_references = before.backward_references
        /\ external_entities = before.external_entities
        /\ shared_entities = before.shared_entities
        /\ \A p \in edges : /\ edge_index[p].weight = before.edge_index[p].weight
                            /\ edge_index[p].kind = before.edge_index[p].kind
        /\ score = before.score

\* C2: section_index and section_listings agree in every state: each node
\* is in the listing of its section and in no other, and the listings hold
\* nothing but nodes.
SectionPartition ==
    /\ \A n \in nodes :
          /\ section_index[n] \in Names
          /\ \A s \in Names : n \in section_listings[s] <=> s = section_index[n]
    /\ UNION {section_listings[s] : s \in Names} = nodes

\* A re-run has returned and a node sits in another section than the one it
\* was first seen in.
SectionPartitionWitness ==
    /\ pc = "loop"
    /\ runs >= 2
    /\ \E n \in nodes : section_index[n] # section_counts[n][1][1]

\* The section of node a comes after the section of node b in the section
\* order.
After(a, b) ==
    /\ InSeq(section_index[a], sections)
    /\ InSeq(section_index[b], sections)
    /\ IndexOf(sections, section_index[a]) > IndexOf(sections, section_index[b])

\* C3: when a postprocessing run returns, the head of every edge in
\* forward_references is in a later section than its tail, and the head of
\* every edge in backward_references is in an earlier one.
DirectionalConsistency ==
    EndOfRun =>
        /\ \A p \in forward_references : After(p[2], p[1])
        /\ \A p \in backward_references : After(p[1], p[2])

\* The edges whose ends are in different sections.
CrossSection == {p \in edges : section_index[p[1]] # section_index[p[2]]}

\* C4: in a graph of two sections whose one cross-section edge was marked
\* forward, a re-run under the swapped order leaves the edge a BackwardEdge
\* of the backward weight, in backward_references and out of
\* forward_references.
RenormalizationOnReorder ==
    \A p \in Names \X Names :
        ( /\ pc = "loop"
          /\ runs >= 2
          /\ Len(sections) = 2
          /\ before.sections = <<sections[2], sections[1]>>
          /\ CrossSection = {p}
          /\ before.edge_index[p].kind = "ForwardEdge"
          /\ before.edge_index[p].weight = DefaultWeight("ForwardEdge")
          /\ p \in before.forward_references
          /\ p \notin before.backward_references )
        => /\ edge_index[p].kind = "BackwardEdge"
           /\ edge_index[p].weight = DefaultWeight("BackwardEdge")
           /\ p \in backward_references
           /\ p \notin forward_references

\* C5: after parse, a string that entered the graph as a derived phrase
\* variation in one section and is the title of a later section is in its
\* own section, is a section node, and every edge to it from a node of the
\* section it was first seen in is marked forward.
LateSectionTitle ==
    (pc = "main" /\ mark_references) =>
        \A w \in late_titles :
            /\ section_index[w] = w
            /\ w \in section_nodes
            /\ \A t \in adjacency_index[w] :
                  section_index[t] = section_counts[w][1][1] =>
                      /\ <<t, w>> \in forward_references
                      /\ edge_index[<<t, w>>].kind = "ForwardEdge"

\* C6: when a postprocessing run returns, every edge into the head of an
\* edge of external_entities comes from the head's own section.
SelfContainedSingleSection ==
    EndOfRun =>
        \A p \in external_entities :
            \A tail \in adjacency_index[p[2]] :
                section_index[tail] = section_index[p[2]]

\* A re-run has returned with a recorded self-contained edge whose head has
\* two inbound edges.
SelfContainedWitness ==
    /\ pc = "loop"
    /\ runs >= 2
    /\ \E p \in external_entities : Cardinality(adjacency_index[p[2]]) = 2

\* C7: no edge of the store joins a node to itself, and add_edge(t, t, kind)
\* on the store of any reachable state returns None and leaves edges,
\* edge_index and both adjacency maps as they are.
NoSelfLoops ==
    /\ \A p \in edges : p[1] # p[2]
    /\ \A t \in Names :
          /\ t \notin adjacency_list[t]
          /\ t \notin adjacency_index[t]
          /\ edge_index[<<t, t>>] = NoEdge
          /\ \A kind \in EdgeKinds :
                /\ add_edge(Store, t, t, kind) = Store
                /\ add_edge_result(Store, t, t, kind) = NoEdge

\* The parser has just met a section's own title as an entity of it, and so
\* called add_edge(title, title), on a graph that has edges.
NoSelfLoopsWitness ==
    /\ pc = "parse"
    /\ cur_section # None
    /\ phrases = {cur_section}
    /\ edges # {}

\* C8: a pair of distinct nodes that add_edge was called for N >= 1 times
\* has one edge, of frequency N, in the edge set and the edge index, and
\* during construction the edge is of the class of the first call; a pair it
\* was never called for has none.
FrequencyAccumulation ==
    \A p \in Names \X Names :
        p[1] # p[2] =>
            LET c == add_edge_calls[p]
            IN IF c.count = 0
               THEN p \notin edges /\ edge_index[p] = NoEdge
               ELSE /\ p \in edges
                    /\ edge_index[p].frequency = c.count
                    /\ pc = "parse" => edge_index[p].kind = c.first

\* During construction a pair has been added twice, under two edge classes.
FrequencyAccumulationWitness ==
    /\ pc = "parse"
    /\ \E p \in edges : /\ add_edge_calls[p].count = 2
                        /\ Cardinality(add_edge_calls[p].kinds) = 2

\* C9: parse (construction, then the passes with reference marking on)
\* never ends in an exception.
NoFatalCondition == (mark_references /\ runs = 1) => pc # "ValueError"

\* C10: on a graph without nodes no mean and not the score raises, and all
\* return what mean_cycle_length returns there.
EmptyGraphMetrics ==
    (pc = "main" /\ nodes = {}) =>
        \A m \in {mean_outdegree, mean_section_outdegree, mean_weighted_outdegree,
                  mean_weighted_section_outdegree, mean_cycle_length,
                  mean_subgraph_size, score} :
            m # ZeroDivisionError /\ m = mean_cycle_length

\* The four structures of a store name the same pairs.
Consistent(S) ==
    /\ \A t \in Names : S.adjacency_list[t] = {h \in Names : <<t, h>> \in S.edges}
    /\ \A h \in Names : S.adjacency_index[h] = {t \in Names : <<t, h>> \in S.edges}
    /\ \A p \in Names \X Names : p \in S.edges <=> S.edge_index[p] # NoEdge

\* C11: in every state the edge set, the two adjacency maps and the edge
\* index name the same pairs, and they still do after remove_edge of any
\* edge of the graph.
AdjacencyConsistency ==
    LET S == Store
    IN  /\ Consistent(S)
        /\ \A p \in edges : Consistent(remove_edge(S, p[1], p[2]))

\* A postprocessing run has returned after set_edge replaced an edge, in a
\* graph that also has an edge it left alone.
AdjacencyConsistencyWitness ==
    /\ EndOfRun
    /\ \E p, q \in edges : /\ edge_index[p].kind \in {"ForwardEdge", "BackwardEdge"}
                            /\ edge_index[q].kind \in {"Edge", "ImplicitEdge"}

\* C12: in every state, during construction and after each pass,
\* section_nodes is the set of the nodes that are their own section.
SectionNodeSet ==
    section_nodes = {n \in nodes : section_index[n] = n}

\* The tally entries that a step raises by exactly one.
Raised ==
    {e \in Names \X Names :
        Get(section_counts'[e[1]], e[2]) = Get(section_counts[e[1]], e[2]) + 1}

\* C13: no step lowers a tally entry; a step that registers a node or
\* observes an entity or a variation raises exactly one entry, by one, and
\* leaves the others; no step of postprocessing changes a tally.
TallyMonotonicity ==
    [][/\ \A n, s \in Names :
             Get(section_counts'[n], s) >= Get(section_counts[n], s)
       /\ (nodes' # nodes \/ n_observations' = n_observations + 1) =>
             /\ Cardinality(Raised) = 1
             /\ \A n, s \in Names :
                   <<n, s>> \notin Raised =>
                       Get(section_counts'[n], s) = Get(section_counts[n], s)
       /\ pc # "parse" => section_counts' = section_counts]_vars

\* Pass 2 has just moved a node to another section than the one it had
\* when the run began, and the node has been observed more than once.
TallyMonotonicityWitness ==
    /\ pc = "_categorise_nodes"
    /\ \E n \in nodes : /\ section_index[n] # before.section_index[n]
                         /\ \E i \in DOMAIN section_counts[n] : section_counts[n][i][2] > 1

\* C14: immediately after pass 2 every node is in the section whose tally
\* for the node is highest, and among sections of equal tally in the one
\* that entered the node's tally first.
MajoritySection ==
    pc = "_categorise_nodes" =>
        \A n \in nodes :
            LET d == section_counts[n]
            IN \E i \in DOMAIN d :
                   /\ d[i][1] = section_index[n]
                   /\ \A j \in DOMAIN d : d[j][2] <= d[i][2]
                   /\ \A j \in DOMAIN d : d[j][2] = d[i][2] => i <= j

\* Pass 2 has just run on a graph with a node whose two sections tie.
MajoritySectionWitness ==
    /\ pc = "_categorise_nodes"
    /\ \E n \in nodes : /\ Len(section_counts[n]) = 2
                         /\ section_counts[n][1][2] = section_counts[n][2][2]

\* C15: when a postprocessing run has returned, every node that a section
\* node pointed to by an implicit edge when the run began is in the section
\* of that section node.
ImplicitCorrectionSurvives ==
    EndOfRun =>
        \A s \in section_nodes : \A c \in adjacency_list[s] :
            before.edge_index[<<s, c>>].kind = "ImplicitEdge" =>
                section_index[c] = section_index[s]

\* Pass 3 has run at least once and no later run is inside pass 1 or 2.
AfterPass3 ==
    /\ runs >= 1
    /\ pc \notin {"parse", "_reassign_implicit_entities", "_reassign_sections",
                 "_categorise_nodes"}

MarkingCoverage ==
    (pc = "find_cycles" /\ mark_references) =>
        \A p \in edges :
            IF section_index[p[1]] # section_index[p[2]]
            THEN /\ pass4.marked[p] = 1
                 /\ edge_index[p].kind \in {"ForwardEdge", "BackwardEdge"}
                 /\ edge_index[p].kind = "ForwardEdge" => p \in forward_references
                 /\ edge_index[p].kind = "BackwardEdge" => p \in backward_references
            ELSE /\ pass4.marked[p] = 0
                 /\ edge_index[p] = pass4.entry[p]

\* Pass 4 has returned in a re-run on a graph with an edge between two
\* sections, whose head has another inbound edge, and an edge inside one.
MarkingCoverageWitness ==
    /\ pc = "find_cycles"
    /\ mark_references
    /\ runs >= 2
    /\ \E p, q \in edges :
           /\ section_index[p[1]] # section_index[p[2]]
           /\ Cardinality(adjacency_index[p[2]]) >= 2
           /\ section_index[q[1]] = section_index[q[2]]

\* w < v for two weights.
WeightLess(w, v) ==
    LET m == IF w.exp < v.exp THEN w.exp ELSE v.exp
    IN w.mant * 2^(v.exp - m) < v.mant * 2^(w.exp - m)

\* C18: no step of postprocessing changes the nodes or the pairs that have
\* an edge; a step of pass 4 that re-kinds an edge leaves its frequency and
\* style and sets its weight to the multiplier of the new kind; the forward
\* multiplier exceeds the backward one.
FramePreservingRekinding ==
    [][/\ pc # "parse" =>
             /\ nodes' = nodes
             /\ edges' = edges
             /\ \A p \in Names \X Names :
                   pass4'.marked[p] > pass4.marked[p] =>
                       /\ edge_index'[p].kind \in {"ForwardEdge", "BackwardEdge"}
                       /\ edge_index'[p].frequency = edge_index[p].frequency
                       /\ edge_index'[p].style = edge_index[p].style
                       /\ edge_index'[p].weight = DefaultWeight(edge_index'[p].kind)
       /\ WeightLess(DefaultWeight("BackwardEdge"), DefaultWeight("ForwardEdge"))]_vars

\* Pass 4 has re-kinded an edge that the parser had seen twice.
FramePreservingRekindingWitness ==
    /\ pc = "find_cycles"
    /\ \E p \in edges : pass4.marked[p] = 1 /\ edge_index[p].frequency = 2

\* The sum of the tally of a node over the sections.
RECURSIVE SumTally(_)
SumTally(d) == IF d = <<>> THEN 0 ELSE d[1][2] + SumTally(Tail(d))

\* C19: every step of construction that observes a registered node, as the
\* title of a section, as an entity or as a derived variation, raises the
\* node's tally for the section in which it is observed by exactly one.
EveryObservationTallied ==
    [][\A n \in nodes :
          (\/ n_sections' = n_sections + 1 /\ cur_section' = n
           \/ n_observations' = n_observations + 1 /\ phrases' = {n}
           \/ n_observations' = n_observations + 1 /\ phrases' = phrases \cup {n}
                                                  /\ n \notin phrases) =>
              /\ Get(section_counts'[n], cur_section') = Get(section_counts[n], cur_section') + 1
              /\ SumTally(section_counts'[n]) = SumTally(section_counts[n]) + 1]_vars

\* C20: whenever the experiment loop is back at its head, the score it
\* recorded last stands at the position of the ordering it recorded last,
\* which is the ordering the graph has just been postprocessed under, and
\* is the score of the graph as that run left it.
DriverPairing ==
    (pc = "loop" /\ scores # <<>>) =>
        /\ Len(scores) = Len(permutations)
        /\ permutations[Len(permutations)] = sections
        /\ scores[Len(scores)] = score

\* C21: when a postprocessing run on a graph with nodes has returned, every
\* section of the section order lists a node, and neither per-section mean
\* divides by zero.
NonEmptySections ==
    (EndOfRun /\ nodes # {}) =>
        /\ \A i \in DOMAIN sections : section_listings[sections[i]] # {}
        /\ mean_section_outdegree # ZeroDivisionError
        /\ mean_weighted_section_outdegree # ZeroDivisionError

====
